---- MODULE Spec2Model ----
(***************************************************************************)
(* A model of markdownlint-rs: the fix engine (src/fix/fixer.rs), the lint *)
(* engine's rule dispatch (src/lint/engine.rs) and the file-level fix      *)
(* paths (Fixer::apply_file_fixes and the --fix loop of src/main.rs).      *)
(*                                                                         *)
(* Text is a sequence of characters; a character is a one-element token.   *)
(* CR and LF stand for "\r" and "\n".  An Option<usize> is a sequence of   *)
(* length 0 (None) or 1 (Some(n)).                                         *)
(***************************************************************************)
EXTENDS Integers, Sequences, FiniteSets, TLC

CR == "CR"
LF == "LF"

None == <<>>
Some(n) == <<n>>
IsSome(o) == Len(o) = 1
Unwrap(o) == o[1]

(***************************************************************************)
(* Bounds of the model.                                                    *)
(***************************************************************************)
MaxLines == 2      \* lines of a generated content
MaxFixes == 2      \* fixes in one call
MaxLine  == 2      \* line numbers a fix may name
MaxCol   == 2      \* column numbers a fix may name
MaxPerRule  == 2   \* violations one rule returns from one check
MaxViolLine == 2   \* line numbers a violation may carry
MaxOffset == 9      \* byte offsets put to the parser
MaxAdds == 3        \* add_file_result calls on one LintResult
MaxFiles == 2       \* files named on the command line
MaxRegisters == 4   \* register calls on one RuleRegistry

(***************************************************************************)
(* Generic sequence helpers.                                               *)
(***************************************************************************)
Front(s) == SubSeq(s, 1, Len(s) - 1)
Last(s) == s[Len(s)]
Take(s, n) == SubSeq(s, 1, n)
Drop(s, n) == SubSeq(s, n + 1, Len(s))

RECURSIVE Concat(_)
Concat(ss) == IF ss = <<>> THEN <<>> ELSE Head(ss) \o Concat(Tail(ss))

\* usize::saturating_sub(1)
SatSub1(n) == IF n = 0 THEN 0 ELSE n - 1

(***************************************************************************)
(* str::lines(): split_inclusive('\n'), then strip one trailing "\n" and,  *)
(* only if a "\n" was stripped, one trailing "\r".                         *)
(***************************************************************************)
RECURSIVE SplitInclusive(_, _)
SplitInclusive(s, cur) ==
    IF s = <<>> THEN (IF cur = <<>> THEN <<>> ELSE <<cur>>)
    ELSE IF Head(s) = LF THEN <<Append(cur, LF)>> \o SplitInclusive(Tail(s), <<>>)
    ELSE SplitInclusive(Tail(s), Append(cur, Head(s)))

StripLineEnding(p) ==
    IF p # <<>> /\ Last(p) = LF
    THEN LET q == Front(p)
         IN IF q # <<>> /\ Last(q) = CR THEN Front(q) ELSE q
    ELSE p

Lines(s) ==
    LET ps == SplitInclusive(s, <<>>)
    IN [i \in 1..Len(ps) |-> StripLineEnding(ps[i])]

\* [String]::join(sep)
RECURSIVE Join(_, _)
Join(ls, sep) ==
    IF ls = <<>> THEN <<>>
    ELSE IF Len(ls) = 1 THEN ls[1]
    ELSE ls[1] \o sep \o Join(Tail(ls), sep)

(***************************************************************************)
(* fixer.rs                                                                *)
(***************************************************************************)
detect_line_ending(content) ==
    IF \E i \in 1..(Len(content) - 1) : content[i] = CR /\ content[i + 1] = LF
    THEN <<CR, LF>>
    ELSE <<LF>>

fixes_overlap(a, b) ==
    IF a.line_end < b.line_start \/ b.line_end < a.line_start THEN FALSE
    ELSE IF a.line_start = b.line_start /\ a.line_end = b.line_end
    THEN IF /\ IsSome(a.column_start) /\ IsSome(a.column_end)
            /\ IsSome(b.column_start) /\ IsSome(b.column_end)
         THEN ~(\/ Unwrap(a.column_end) < Unwrap(b.column_start)
                \/ Unwrap(b.column_end) < Unwrap(a.column_start))
         ELSE TRUE
    ELSE TRUE

has_overlaps(fixes) ==
    \E i \in 1..Len(fixes) : \E j \in (i + 1)..Len(fixes) :
        fixes_overlap(fixes[i], fixes[j])

\* The comparator of sorted_fixes.sort_by: "Less" puts a before b.
CmpNat(x, y) == IF x < y THEN "Less" ELSE IF x > y THEN "Greater" ELSE "Equal"

sort_cmp(a, b) ==
    LET byLine == CmpNat(b.line_start, a.line_start)
    IN IF byLine = "Equal"
       THEN IF IsSome(b.column_start) /\ IsSome(a.column_start)
            THEN CmpNat(Unwrap(b.column_start), Unwrap(a.column_start))
            ELSE "Equal"
       ELSE byLine

\* slice::sort_by on a short slice: a stable insertion sort.  x is moved left
\* past every element it is Less than, starting from the right end.
RECURSIVE InsertSorted(_, _)
InsertSorted(sorted, x) ==
    IF sorted # <<>> /\ sort_cmp(x, Last(sorted)) = "Less"
    THEN Append(InsertSorted(Front(sorted), x), Last(sorted))
    ELSE Append(sorted, x)

RECURSIVE sort_fixes(_)
sort_fixes(fixes) ==
    IF fixes = <<>> THEN <<>>
    ELSE InsertSorted(sort_fixes(Front(fixes)), Last(fixes))

\* apply_single_fix: the lines after the fix and how the call ended: "ok",
\* one of the three Fix errors ("start_line", "end_line", "column": the
\* message of the error), or "panic" (Vec::splice panics on a range whose
\* start exceeds its end, here start_line > end_line + 1).
\* A variant that takes column_end as exclusive.
ColumnSpliceExclusiveEnd(chars, col_start, col_end, replacement) ==
    Take(chars, SatSub1(col_start)) \o replacement \o Drop(chars, SatSub1(col_end))

ColumnSplice(chars, col_start, col_end, replacement) ==
    Take(chars, SatSub1(col_start)) \o replacement \o Drop(chars, col_end)

\* The column test of apply_single_fix, and a variant that tests
\* column_start only.
column_out_of_bounds_start_only(chars, col_start, col_end) ==
    col_start > Len(chars)

column_out_of_bounds(chars, col_start, col_end) ==
    col_start > Len(chars) \/ col_end > Len(chars)

apply_single_fix(lines, fix) ==
    LET start_line == SatSub1(fix.line_start)
        end_line == SatSub1(fix.line_end)
        n == Len(lines)
    IN IF start_line >= n THEN [lines |-> lines, end |-> "start_line"]
       ELSE IF end_line >= n THEN [lines |-> lines, end |-> "end_line"]
       ELSE IF /\ start_line = end_line
               /\ IsSome(fix.column_start) /\ IsSome(fix.column_end)
       THEN LET chars == lines[start_line + 1]
                col_start == Unwrap(fix.column_start)
                col_end == Unwrap(fix.column_end)
            IN IF column_out_of_bounds(chars, col_start, col_end)
               THEN [lines |-> lines, end |-> "column"]
               ELSE [lines |-> [lines EXCEPT ![start_line + 1] =
                                   ColumnSplice(chars, col_start, col_end,
                                                fix.replacement)],
                     end |-> "ok"]
       ELSE IF start_line = end_line
       THEN [lines |-> [lines EXCEPT ![start_line + 1] = fix.replacement],
             end |-> "ok"]
       ELSE IF start_line > end_line + 1
       THEN [lines |-> lines, end |-> "panic"]
       ELSE [lines |-> Take(lines, start_line) \o Lines(fix.replacement)
                          \o Drop(lines, end_line + 1),
             end |-> "ok"]

\* The loop "for fix in sorted_fixes { apply_single_fix(&mut lines, &fix)?; }":
\* the lines when it stopped, how it stopped and how many fixes were applied.
RECURSIVE apply_loop(_, _, _)
apply_loop(lines, todo, applied) ==
    IF todo = <<>> THEN [lines |-> lines, end |-> "ok", applied |-> applied]
    ELSE LET r == apply_single_fix(lines, Head(todo))
         IN IF r.end = "ok"
            THEN apply_loop(r.lines, Tail(todo), applied + 1)
            ELSE [lines |-> r.lines, end |-> r.end, applied |-> applied]

\* Result<String>: Ok(text), Err(MarkdownlintError::Fix(message)), or the
\* call not returning at all (a panic).
OkResult(text) == [kind |-> "Ok", content |-> text]
FixError(message) == [kind |-> "Err", error |-> "Fix", message |-> message]
Panic == [kind |-> "Panic"]

apply_run(content, fixes) == apply_loop(Lines(content), sort_fixes(fixes), 0)

apply_fixes_to_content(content, fixes) ==
    IF fixes = <<>> THEN OkResult(content)
    ELSE IF has_overlaps(sort_fixes(fixes)) THEN FixError("overlap")
    ELSE LET r == apply_run(content, fixes)
         IN CASE r.end = "ok" -> OkResult(Join(r.lines, detect_line_ending(content)))
              [] r.end = "panic" -> Panic
              [] OTHER -> FixError(r.end)

(***************************************************************************)
(* config/types.rs, lint/rule.rs, lint/rules/mod.rs, lint/engine.rs        *)
(***************************************************************************)
\* serde_json::Value, as far as rule options go.
JBool(b) == [json |-> "Bool", bool |-> b]
JString(str) == [json |-> "String", string |-> str]
JObject(map) == [json |-> "Object", fields |-> map]

\* A HashMap<String, Value> is a set of entries with distinct keys.
Entry(k, v) == [key |-> k, value |-> v]
MapGet(map, k) ==
    IF \E e \in map : e.key = k
    THEN Some((CHOOSE e \in map : e.key = k).value)
    ELSE None

\* enum RuleConfig { Enabled(bool), Config(HashMap<String, Value>) }
Enabled(b) == [tag |-> "Enabled", value |-> b]
ConfigMap(map) == [tag |-> "Config", map |-> map]

\* trait Rule: an instance is known by its name (and which instance it is).
Rule(name, instance) == [name |-> name, instance |-> instance]

\* struct RuleRegistry { rules: HashMap<String, Box<dyn Rule>> }: a set of
\* rules with distinct names.
RuleRegistryNew == {}
\* register, and a variant that keeps the rule already held under the name.
register_keeping_first(registry, rule) ==
    IF \E r \in registry : r.name = rule.name THEN registry ELSE registry \cup {rule}

register(registry, rule) == {r \in registry : r.name # rule.name} \cup {rule}

\* create_default_registry()
BuiltinRuleNames ==
    {"MD001", "MD003", "MD004", "MD005", "MD007",
     "MD009", "MD010", "MD011", "MD012", "MD013"}
RECURSIVE RegisterAll(_, _)
RegisterAll(registry, names) ==
    IF names = {} THEN registry
    ELSE LET n == CHOOSE x \in names : TRUE
         IN RegisterAll(register(registry, Rule(n, 1)), names \ {n})
create_default_registry == RegisterAll(RuleRegistryNew, BuiltinRuleNames)

\* LintEngine::new(config)
LintEngineNew(config) == [config |-> config, registry |-> RuleRegistryNew]

\* The match on rule_config in lint_content: whether the rule is skipped
\* ("continue") and, if not, the Option<Value> handed to check.
\* Two variants: one that does not look for "enabled" inside a structured
\* value, and one that never hands the structured value on.
dispatch_ignoring_enabled_field(rule_config) ==
    IF rule_config = None THEN [skip |-> FALSE, value |-> None]
    ELSE LET rc == Unwrap(rule_config)
         IN IF rc.tag = "Enabled"
            THEN [skip |-> ~rc.value, value |-> None]
            ELSE [skip |-> FALSE, value |-> Some(JObject(rc.map))]

dispatch_dropping_options(rule_config) ==
    IF rule_config = None THEN [skip |-> FALSE, value |-> None]
    ELSE LET rc == Unwrap(rule_config)
         IN IF rc.tag = "Enabled"
            THEN [skip |-> ~rc.value, value |-> None]
            ELSE IF MapGet(rc.map, "enabled") = Some(JBool(FALSE))
            THEN [skip |-> TRUE, value |-> None]
            ELSE [skip |-> FALSE, value |-> None]

dispatch(rule_config) ==
    IF rule_config = None THEN [skip |-> FALSE, value |-> None]
    ELSE LET rc == Unwrap(rule_config)
         IN IF rc.tag = "Enabled"
            THEN [skip |-> ~rc.value, value |-> None]
            ELSE IF MapGet(rc.map, "enabled") = Some(JBool(FALSE))
            THEN [skip |-> TRUE, value |-> None]
            ELSE [skip |-> FALSE, value |-> Some(JObject(rc.map))]

\* The comparator of all_violations.sort_by: a.line.cmp(&b.line) is Less.
\* A variant that also counts an equal line as less.
line_less_or_equal(a, b) == a.line <= b.line

line_less(a, b) == a.line < b.line

\* all_violations.sort_by(|a, b| a.line.cmp(&b.line)): a stable sort; v moves
\* left past every violation it is less than.
RECURSIVE insert_by_line(_, _)
insert_by_line(sorted, v) ==
    IF sorted # <<>> /\ line_less(v, Last(sorted))
    THEN Append(insert_by_line(Front(sorted), v), Last(sorted))
    ELSE Append(sorted, v)

RECURSIVE sort_by_line(_)
sort_by_line(vs) ==
    IF vs = <<>> THEN <<>>
    ELSE insert_by_line(sort_by_line(Front(vs)), Last(vs))

\* The loop of lint_content over registry.all_rules(), taken in the order
\* `order`; returned[name] is what the check of rule `name` returns for the
\* content.  Each call of check is recorded with the config it was given.
RECURSIVE run_rules(_, _, _, _, _)
run_rules(config, order, returned, calls, all_violations) ==
    IF order = <<>> THEN [calls |-> calls, all_violations |-> all_violations]
    ELSE LET rule == Head(order)
             d == dispatch(config[rule.name])
         IN IF d.skip
            THEN run_rules(config, Tail(order), returned, calls, all_violations)
            ELSE run_rules(config, Tail(order), returned,
                           Append(calls, [rule |-> rule.name, config |-> d.value,
                                          returned |-> returned[rule.name]]),
                           all_violations \o returned[rule.name])

\* A variant of lint_content that keeps only the first MaxPerRule violations
\* gathered, before the sort.
lint_content_truncating(engine, order, returned) ==
    LET r == run_rules(engine.config, order, returned, <<>>, <<>>)
    IN [calls |-> r.calls,
        emitted |-> r.all_violations,
        violations |-> sort_by_line(IF Len(r.all_violations) > MaxPerRule
                                    THEN Take(r.all_violations, MaxPerRule)
                                    ELSE r.all_violations)]

lint_content(engine, order, returned) ==
    LET r == run_rules(engine.config, order, returned, <<>>, <<>>)
    IN [calls |-> r.calls,
        emitted |-> r.all_violations,
        violations |-> sort_by_line(r.all_violations)]

(***************************************************************************)
(* MarkdownParser: lines is content.lines(); a line's len() is its number  *)
(* of bytes, here of one-byte characters.                                  *)
(***************************************************************************)
\* MarkdownParser::new(content).lines
ParserLines(text) == Lines(text)

\* The loop of offset_to_position, at the line with index line_num.
RECURSIVE offset_to_position_from(_, _, _, _)
offset_to_position_from(lines, line_num, current_offset, offset) ==
    IF line_num >= Len(lines) THEN <<Len(lines), 1>>
    ELSE LET line_len == Len(lines[line_num + 1]) + 1
         IN IF offset < current_offset + line_len
            THEN <<line_num + 1, offset - current_offset + 1>>
            ELSE offset_to_position_from(lines, line_num + 1,
                                         current_offset + line_len, offset)

offset_to_position(lines, offset) == offset_to_position_from(lines, 0, 0, offset)

\* The loop of line_offset_to_absolute, at the line with index i.
RECURSIVE line_offset_to_absolute_from(_, _, _, _, _)
line_offset_to_absolute_from(lines, i, current_offset, line_num, byte_offset_in_line) ==
    IF i >= Len(lines) THEN current_offset
    ELSE IF i + 1 = line_num THEN current_offset + byte_offset_in_line
    ELSE line_offset_to_absolute_from(lines, i + 1, current_offset + Len(lines[i + 1]) + 1,
                                      line_num, byte_offset_in_line)

\* A variant that leaves the newline of the last line before line_num out
\* of the count.
line_offset_to_absolute_short(lines, line_num, byte_offset_in_line) ==
    LET full == line_offset_to_absolute_from(lines, 0, 0, line_num, byte_offset_in_line)
    IN IF line_num > 1 THEN full - 1 ELSE full

line_offset_to_absolute(lines, line_num, byte_offset_in_line) ==
    line_offset_to_absolute_from(lines, 0, 0, line_num, byte_offset_in_line)

(***************************************************************************)
(* Inputs of the fix engine.  A Fix's description does not influence any   *)
(* result and is left out.                                                 *)
(***************************************************************************)
LineTexts == {<<>>, <<"a">>, <<"a", "b">>}
LineSeqs == UNION {[1..n -> LineTexts] : n \in 0..MaxLines}
LineEndings == {<<LF>>, <<CR, LF>>}
Contents ==
    {Join(ls, sep) \o (IF t THEN sep ELSE <<>>) :
        ls \in LineSeqs, sep \in LineEndings, t \in BOOLEAN}

Replacements == {<<>>, <<"X">>, <<"X", LF, "Y">>}
Columns ==
    {<<None, None>>} \cup
    {<<Some(cs), Some(ce)>> : cs \in 1..MaxCol, ce \in 0..MaxCol}
Fixes ==
    {[line_start |-> ls, line_end |-> le,
      column_start |-> c[1], column_end |-> c[2], replacement |-> r] :
        ls \in 1..MaxLine, le \in 1..MaxLine, c \in Columns, r \in Replacements}
FixLists == UNION {[1..n -> Fixes] : n \in 0..MaxFixes}

(***************************************************************************)
(* Inputs of the lint engine: the rules a registry may hold, what a rule   *)
(* configuration may say, and what a check may return.                     *)
(***************************************************************************)
RuleNames == {"MD001", "MD009"}
OptionMaps ==
    {{Entry("enabled", JBool(FALSE))},
     {Entry("enabled", JBool(FALSE)), Entry("style", JString("atx"))},
     {Entry("enabled", JBool(TRUE))},
     {Entry("style", JString("atx"))},
     {Entry("enabled", JString("false"))}}
RuleConfigs == {Enabled(TRUE), Enabled(FALSE)} \cup {ConfigMap(m) : m \in OptionMaps}
\* Config.config: what config.get(name) gives for each rule name.
Configs == [RuleNames -> {None} \cup {Some(rc) : rc \in RuleConfigs}]
Registries == {{Rule(n, 1) : n \in names} : names \in SUBSET RuleNames}
Engines == [config : Configs, registry : Registries]
\* The orders in which all_rules() may yield the rules of a registry.
Orderings(registry) ==
    {order \in [1..Cardinality(registry) -> registry] :
        \A i, j \in 1..Cardinality(registry) : i # j => order[i] # order[j]}
\* What one rule may return: violations carrying its name, numbered in the
\* order of emission.
CheckResults(name) ==
    UNION {{[i \in 1..n |-> [line |-> ls[i], rule |-> name, message |-> i]] :
               ls \in [1..n -> 1..MaxViolLine]} : n \in 0..MaxPerRule}
\* What the rules return from their checks, by rule name; a rule the
\* registry does not hold returns nothing.
RECURSIVE ReturnMaps(_, _)
ReturnMaps(names, registry) ==
    IF names = {}
    THEN {[n \in {} |-> <<>>]}
    ELSE LET k == CHOOSE n \in names : TRUE
             rs == IF \E r \in registry : r.name = k
                   THEN CheckResults(k)
                   ELSE {<<>>}
         IN {[n \in names |-> IF n = k THEN r ELSE f[n]] :
                f \in ReturnMaps(names \ {k}, registry), r \in rs}
NoLint == [kind |-> "NoLint"]
IdleEngine == LintEngineNew([n \in RuleNames |-> None])

Pending == [kind |-> "Pending"]

VARIABLES
    content,    \* the text handed to the fix engine; the file as it first was
    fixes,      \* the fixes handed to the fix engine, or carried by the file's violations
    result,     \* what apply_fixes_to_content returned, Pending before the call
    disk,       \* the text of the file on disk
    fileRet,    \* how the file-level operation ended, Pending before it
    engine,     \* the LintEngine: its config and its registry
    viaNew,     \* whether the engine was built by LintEngine::new
    lint,       \* the last lint_content call: calls of check, violations
    query,      \* the last position query put to the MarkdownParser of content
    lint_result,\* the LintResult: file_results and total_errors
    added,      \* the FileResults handed to add_file_result so far, in call order
    registry,   \* a RuleRegistry under a sequence of register calls
    registered, \* the rules handed to register so far, in call order
    files,      \* the files named on the command line, as they are on disk
    run,        \* the position and the outcome of run() in main.rs
    checked,    \* the last call of a rule's check: rule, config, violations
    loaded,     \* the last configuration discovery: the files found and merged
    dirs        \* the directories from the start directory up to the root

fixVars == <<content, fixes, result, disk, fileRet>>
lintVars == <<engine, viaNew, lint>>
libVars == <<query, lint_result, added, registry, registered>>
cliVars == <<files, run>>
ruleVars == <<checked, loaded, dirs>>
vars == <<content, fixes, result, disk, fileRet, engine, viaNew, lint,
          query, lint_result, added, registry, registered, files, run,
          checked, loaded, dirs>>

NoQuery == [op |-> "none"]
NoCheck == [rule |-> "none"]
NotLoaded == [op |-> "none"]
LintResultNew == [file_results |-> <<>>, total_errors |-> 0]
NotStarted == [phase |-> "idle"]
LintIdle == engine = IdleEngine /\ viaNew = FALSE /\ lint = NoLint
LibIdle ==
    /\ query = NoQuery
    /\ lint_result = LintResultNew /\ added = <<>>
    /\ registry = RuleRegistryNew /\ registered = <<>>
    /\ checked = NoCheck /\ loaded = NotLoaded /\ dirs = <<>>
CliIdle == files = <<>> /\ run = NotStarted
FixIdle ==
    /\ content = <<>> /\ fixes = <<>> /\ result = Pending
    /\ disk = <<>> /\ fileRet = Pending

(***************************************************************************)
(* Spec: one call of apply_fixes_to_content on any content and any list of *)
(* at most MaxFixes fixes.  SpecOne: the same call with exactly one fix.   *)
(***************************************************************************)
Init ==
    /\ content \in Contents
    /\ fixes \in FixLists
    /\ result = Pending
    /\ disk = content
    /\ fileRet = Pending
    /\ LintIdle /\ LibIdle /\ CliIdle

InitOne ==
    /\ content \in Contents
    /\ fixes \in [1..1 -> Fixes]
    /\ result = Pending
    /\ disk = content
    /\ fileRet = Pending
    /\ LintIdle /\ LibIdle /\ CliIdle

\* Fixer::apply_fixes_to_content(content, fixes)
ApplyFixesToContent ==
    /\ result = Pending
    /\ result' = apply_fixes_to_content(content, fixes)
    /\ UNCHANGED <<content, fixes, disk, fileRet, lintVars, libVars, cliVars, ruleVars>>

Next == ApplyFixesToContent

Spec == Init /\ [][Next]_vars

SpecOne == InitOne /\ [][Next]_vars

(***************************************************************************)
(* SpecFile: one file on disk and a FileResult whose violations carry the  *)
(* fixes; either Fixer::apply_file_fixes or the body of the --fix loop of  *)
(* run() is executed on it.  A read or a write of the file may fail.       *)
(***************************************************************************)
\* The violations of the FileResult: one without a fix, then one per fix.
Violation(line, fix) == [line |-> line, rule |-> "MD", fix |-> fix]
ViolationsCarrying(fl) ==
    <<Violation(1, None)>> \o
    [i \in 1..Len(fl) |-> Violation(fl[i].line_start, Some(fl[i]))]
file_result == [path |-> "doc.md", violations |-> ViolationsCarrying(fixes)]

\* violations.iter().filter_map(|v| v.fix.clone()).collect()
RECURSIVE FilterMapFix(_)
FilterMapFix(vs) ==
    IF vs = <<>> THEN <<>>
    ELSE (IF IsSome(Head(vs).fix) THEN <<Unwrap(Head(vs).fix)>> ELSE <<>>)
             \o FilterMapFix(Tail(vs))

\* What a failed fs::write may leave behind: the old text or a truncated file.
AfterFailedWrite(old) == {old, <<>>}

\* The text on disk after the file-level operation got r from
\* apply_fixes_to_content: written only on Ok (and not in a dry run).
\* A variant that creates (truncates) the file before looking at r.
DiskAfterTruncateFirst(old, r, dry_run) ==
    IF dry_run THEN old
    ELSE IF r.kind = "Ok" THEN r.content ELSE <<>>

DiskAfter(old, r, dry_run) ==
    IF r.kind = "Ok" /\ ~dry_run THEN r.content ELSE old

FileOutcome(op, r, wrote) ==
    [op |-> op, kind |-> r.kind,
     error |-> IF r.kind = "Err" THEN r.error ELSE "",
     message |-> IF r.kind = "Err" THEN r.message ELSE "",
     wrote |-> wrote]
IoError(op) ==
    [op |-> op, kind |-> "Err", error |-> "Io", message |-> "", wrote |-> FALSE]

\* Fixer::apply_file_fixes(&file_result), for a Fixer built with dry_run.
ApplyFileFixes(dry_run, readable, writable) ==
    /\ fileRet = Pending
    /\ LET fs == FilterMapFix(file_result.violations)
           r == apply_fixes_to_content(disk, fs)
       IN IF fs = <<>>
          THEN /\ fileRet' = FileOutcome("apply_file_fixes", OkResult(<<>>), FALSE)
               /\ disk' = disk
          ELSE IF ~readable
          THEN /\ fileRet' = IoError("apply_file_fixes")
               /\ disk' = disk
          ELSE IF r.kind = "Ok" /\ ~dry_run /\ ~writable
          THEN /\ fileRet' = IoError("apply_file_fixes")
               /\ disk' \in AfterFailedWrite(disk)
          ELSE /\ fileRet' = FileOutcome("apply_file_fixes", r,
                                         r.kind = "Ok" /\ ~dry_run)
               /\ disk' = DiskAfter(disk, r, dry_run)
    /\ UNCHANGED <<content, fixes, result, lintVars, libVars, cliVars, ruleVars>>

\* The body of "for file_result in &lint_result.file_results" in run().
\* A Fix error is reported and the loop goes on: kind "Err" here is the
\* error the loop printed; an Io error leaves run() through "?".
CliFixFile(readable, writable) ==
    /\ fileRet = Pending
    /\ LET fixable == SelectSeq(file_result.violations, LAMBDA v : IsSome(v.fix))
           fs == FilterMapFix(fixable)
           r == apply_fixes_to_content(disk, fs)
       IN IF fixable = <<>>
          THEN /\ fileRet' = FileOutcome("cli", OkResult(<<>>), FALSE)
               /\ disk' = disk
          ELSE IF ~readable
          THEN /\ fileRet' = IoError("cli")
               /\ disk' = disk
          ELSE IF r.kind = "Ok" /\ ~writable
          THEN /\ fileRet' = IoError("cli")
               /\ disk' \in AfterFailedWrite(disk)
          ELSE /\ fileRet' = FileOutcome("cli", r, r.kind = "Ok")
               /\ disk' = DiskAfter(disk, r, FALSE)
    /\ UNCHANGED <<content, fixes, result, lintVars, libVars, cliVars, ruleVars>>

NextFile ==
    \/ \E dry_run, readable, writable \in BOOLEAN :
           ApplyFileFixes(dry_run, readable, writable)
    \/ \E readable, writable \in BOOLEAN : CliFixFile(readable, writable)

\* The files: lines joined by "\n". The fixes of the FileResult: whole-line
\* fixes and fixes of column 1, all carrying the same replacement text.
FileContents ==
    {Join(ls, <<LF>>) :
        ls \in UNION {[1..n -> {<<>>, <<"a", "b">>}] : n \in 0..MaxLines}}
FileFixes ==
    {f \in Fixes :
        /\ f.replacement = <<"X">>
        /\ f.column_start \in {None, Some(1)}
        /\ f.column_end \in {None, Some(1)}}
FileFixLists == UNION {[1..n -> FileFixes] : n \in 0..MaxFixes}

InitFile ==
    /\ content \in FileContents
    /\ fixes \in FileFixLists
    /\ result = Pending
    /\ disk = content
    /\ fileRet = Pending
    /\ LintIdle /\ LibIdle /\ CliIdle

SpecFile == InitFile /\ [][NextFile]_vars

(***************************************************************************)
(* SpecLint: an engine, either built by LintEngine::new or holding any     *)
(* registry RuleRegistry::register can build, runs lint_content once.      *)
(***************************************************************************)
InitLint ==
    /\ content = <<>> /\ fixes = <<>> /\ result = Pending
    /\ disk = <<>> /\ fileRet = Pending
    /\ engine \in Engines
    /\ viaNew = FALSE
    /\ lint = NoLint
    /\ LibIdle /\ CliIdle

\* LintEngine::new(config)
EngineNew(config) ==
    /\ lint = NoLint /\ ~viaNew
    /\ engine' = LintEngineNew(config)
    /\ viaNew' = TRUE
    /\ UNCHANGED <<lint, fixVars, libVars, cliVars, ruleVars>>

\* LintEngine::lint_content(content)
LintContent ==
    /\ lint = NoLint
    /\ \E order \in Orderings(engine.registry) :
       \E returned \in ReturnMaps(RuleNames, engine.registry) :
           lint' = lint_content(engine, order, returned)
    /\ UNCHANGED <<engine, viaNew, fixVars, libVars, cliVars, ruleVars>>

NextLint ==
    \/ \E config \in Configs : EngineNew(config)
    \/ LintContent

SpecLint == InitLint /\ [][NextLint]_vars

(***************************************************************************)
(* Vocabulary of the claims about the fix engine.                          *)
(***************************************************************************)
Returned == result # Pending
HasColumns(f) == IsSome(f.column_start) /\ IsSome(f.column_end)
SameSpan(f, g) == f.line_start = g.line_start /\ f.line_end = g.line_end
\* Inclusive overlap of the column ranges [column_start, column_end].
ColumnsOverlap(f, g) ==
    /\ Unwrap(f.column_start) <= Unwrap(g.column_end)
    /\ Unwrap(g.column_start) <= Unwrap(f.column_end)
OrigLines == Lines(content)

\* C1 (Overlap rejection): a fix list holding two fixes with identical
\* (line_start, line_end) whose column ranges overlap inclusively, or of which
\* one has no columns, makes apply_fixes_to_content return a Fix error; two
\* column-addressed fixes on one identical single line with disjoint column
\* ranges are not rejected as overlapping.
C1_OverlapRejection ==
    Returned =>
        /\ (\E i, j \in 1..Len(fixes) :
                /\ i # j
                /\ SameSpan(fixes[i], fixes[j])
                /\ \/ ~HasColumns(fixes[i])
                   \/ ~HasColumns(fixes[j])
                   \/ ColumnsOverlap(fixes[i], fixes[j]))
            => (result.kind = "Err" /\ result.error = "Fix")
        /\ (/\ Len(fixes) = 2
            /\ SameSpan(fixes[1], fixes[2])
            /\ fixes[1].line_start = fixes[1].line_end
            /\ HasColumns(fixes[1]) /\ HasColumns(fixes[2])
            /\ ~ColumnsOverlap(fixes[1], fixes[2]))
            => result # FixError("overlap")

\* Every reordering of a sequence.
Reorderings(s) ==
    {[i \in 1..Len(s) |-> s[p[i]]] :
        p \in {q \in [1..Len(s) -> 1..Len(s)] :
                  \A i, j \in 1..Len(s) : i # j => q[i] # q[j]}}

\* A result with the message of an error left out: its kind only.
Outcome(r) == IF r.kind = "Err" THEN [kind |-> "Err", error |-> r.error] ELSE r

\* C2 (Fix ordering invariance): for a fix list that apply_fixes_to_content
\* does not reject as overlapping, every permutation of the list gives the
\* same outcome: the same corrected text or the same kind of error.
C2_OrderInvariance ==
    (Returned /\ result # FixError("overlap")) =>
        \A perm \in Reorderings(fixes) :
            Outcome(apply_fixes_to_content(content, perm)) = Outcome(result)

\* Content in which every line, the last included, ends in "\r\n".
AllCrlf(text) ==
    /\ text # <<>>
    /\ Last(text) = LF
    /\ \A i \in 1..Len(text) : text[i] = LF => (i > 1 /\ text[i - 1] = CR)
    /\ \A i \in 1..Len(text) : text[i] = CR => (i < Len(text) /\ text[i + 1] = LF)
NoBareLf(text) ==
    \A i \in 1..Len(text) : text[i] = LF => (i > 1 /\ text[i - 1] = CR)
EndsWithCrlf(text) ==
    Len(text) >= 2 /\ text[Len(text) - 1] = CR /\ text[Len(text)] = LF
\* No fix names the last line of the content.
LastLineUntouched ==
    \A i \in 1..Len(fixes) :
        /\ fixes[i].line_start < Len(OrigLines)
        /\ fixes[i].line_end < Len(OrigLines)

\* C3 (Line-ending round trip): for content whose every line ends in "\r\n",
\* a successful apply_fixes_to_content returns text whose every line break is
\* "\r\n": no bare "\n" appears, and the "\r\n" of an untouched line (here the
\* last one) is not lost.
C3_CrlfRoundTrip ==
    (Returned /\ AllCrlf(content) /\ result.kind = "Ok") =>
        /\ NoBareLf(result.content)
        /\ LastLineUntouched => EndsWithCrlf(result.content)

\* The single fix of a one-fix call, and the line it names.
TheFix == fixes[1]
InBounds(f) ==
    /\ 1 <= f.line_start /\ f.line_start <= f.line_end
    /\ f.line_end <= Len(OrigLines)
ColumnFixCase ==
    /\ Len(fixes) = 1
    /\ TheFix.line_start = TheFix.line_end
    /\ HasColumns(TheFix)
    /\ InBounds(TheFix)
    /\ 1 <= Unwrap(TheFix.column_start)
    /\ Unwrap(TheFix.column_start) <= Unwrap(TheFix.column_end)
    /\ Unwrap(TheFix.column_end) <= Len(OrigLines[TheFix.line_start])
\* The line named by a column fix with characters column_start..column_end
\* replaced, stated from the claim: prefix, replacement, suffix.
ExpectedColumnLine ==
    LET line == OrigLines[TheFix.line_start]
    IN SubSeq(line, 1, Unwrap(TheFix.column_start) - 1)
           \o TheFix.replacement
           \o SubSeq(line, Unwrap(TheFix.column_end) + 1, Len(line))

\* C4 (Column fix precision): a single fix with line_start = line_end and
\* 1 <= column_start <= column_end <= the line's character count succeeds and
\* replaces exactly the characters column_start..column_end of that line by the
\* replacement; the rest of the line and every other line are unchanged.
C4_ColumnFixPrecision ==
    (Returned /\ ColumnFixCase) =>
        /\ result.kind = "Ok"
        /\ result.content =
               Join([i \in 1..Len(OrigLines) |->
                        IF i = TheFix.line_start THEN ExpectedColumnLine
                        ELSE OrigLines[i]],
                    detect_line_ending(content))

\* A case of C4 with kept characters before the replaced range and a second line.
C4_Witness ==
    /\ Returned /\ ColumnFixCase
    /\ result.kind = "Ok"
    /\ Unwrap(TheFix.column_start) = 2
    /\ Len(OrigLines) = 2
    /\ TheFix.replacement = <<"X">>

LineFixCase ==
    /\ Len(fixes) = 1
    /\ InBounds(TheFix)
    /\ (~HasColumns(TheFix) \/ TheFix.line_start # TheFix.line_end)
\* The lines the claim describes: the closed range [line_start, line_end]
\* replaced by the lines of the replacement.
ExpectedSplice ==
    Take(OrigLines, TheFix.line_start - 1)
        \o Lines(TheFix.replacement)
        \o Drop(OrigLines, TheFix.line_end)

\* C5 (Line-addressed splice): a single in-range fix without columns, or with
\* line_start # line_end, replaces the lines line_start..line_end by the lines
\* of the replacement: n - (line_end - line_start + 1) + k lines result, those
\* outside the range unchanged and in order, also when line_start = line_end.
\* The lines are read every way: the line vector the fix engine joins, the
\* lines of the returned text, and those against the lines of the expected text.
C5_LineSplice ==
    (Returned /\ LineFixCase) =>
        /\ result.kind = "Ok"
        /\ \/ apply_run(content, fixes).lines = ExpectedSplice
           \/ Lines(result.content) = ExpectedSplice
           \/ Lines(result.content) =
                  Lines(Join(ExpectedSplice, detect_line_ending(content)))

\* C6 (No partial application): when the fix application of a file ends in a
\* Fix error, by Fixer::apply_file_fixes or in the --fix loop, nothing was
\* written and the file on disk is the text it was before.
C6_NoPartialApplication ==
    (fileRet # Pending /\ fileRet.kind = "Err" /\ fileRet.error = "Fix") =>
        /\ disk = content
        /\ ~fileRet.wrote

\* A Fix error met after a fix of the same batch had changed the lines in memory.
C6_Witness ==
    /\ fileRet # Pending
    /\ fileRet.op = "cli"
    /\ fileRet.kind = "Err" /\ fileRet.error = "Fix"
    /\ fileRet.message = "column"
    /\ \A i \in 1..Len(fixes) : fixes[i].line_start = fixes[i].line_end
    /\ apply_run(content, fixes).applied = 1
    /\ apply_run(content, fixes).lines # Lines(content)

(***************************************************************************)
(* Vocabulary of the claims about the lint engine.                         *)
(***************************************************************************)
Linted == lint # NoLint
RegisteredNames == {r.name : r \in engine.registry}
ConfigOf(name) == engine.config[name]
\* The rule's config entry is boolean false, or a structured value that
\* contains enabled: false.
DisabledByConfig(name) ==
    \/ ConfigOf(name) = Some(Enabled(FALSE))
    \/ /\ ConfigOf(name) # None
       /\ Unwrap(ConfigOf(name)).tag = "Config"
       /\ Entry("enabled", JBool(FALSE)) \in Unwrap(ConfigOf(name)).map
CallsOf(name) == {i \in 1..Len(lint.calls) : lint.calls[i].rule = name}

\* C7 (Disabled rule is never invoked): in lint_content, a registered rule
\* whose config entry is false, or a structured value with enabled: false, is
\* never handed to check and no violation with its id is in the result.
C7_DisabledNeverInvoked ==
    Linted =>
        \A name \in RegisteredNames :
            DisabledByConfig(name) =>
                /\ CallsOf(name) = {}
                /\ \A i \in 1..Len(lint.violations) : lint.violations[i].rule # name

\* Both rules registered, one disabled by a structured value, the other ran
\* and reported.
C7_Witness ==
    /\ Linted
    /\ RegisteredNames = RuleNames
    /\ ConfigOf("MD009") =
           Some(ConfigMap({Entry("enabled", JBool(FALSE)), Entry("style", JString("atx"))}))
    /\ Len(lint.calls) = 1
    /\ Len(lint.violations) = 2

\* C8 (Dispatch config value): every registered rule that is not skipped is
\* checked; with config None when the rule is absent from the config map or
\* mapped to true, and with the whole structured value when it is mapped to
\* a structured value without enabled: false.
C8_DispatchConfigValue ==
    Linted =>
        \A name \in RegisteredNames :
            ~DisabledByConfig(name) =>
                /\ CallsOf(name) # {}
                /\ \A i \in CallsOf(name) :
                       IF ConfigOf(name) = None \/ ConfigOf(name) = Some(Enabled(TRUE))
                       THEN lint.calls[i].config = None
                       ELSE lint.calls[i].config =
                                Some(JObject(Unwrap(ConfigOf(name)).map))

\* One rule checked with its structured options, the other with None.
C8_Witness ==
    /\ Linted
    /\ RegisteredNames = RuleNames
    /\ ConfigOf("MD001") = Some(ConfigMap({Entry("style", JString("atx"))}))
    /\ ConfigOf("MD009") = None
    /\ \E i, j \in 1..Len(lint.calls) :
           /\ lint.calls[i].rule = "MD001"
           /\ lint.calls[i].config = Some(JObject({Entry("style", JString("atx"))}))
           /\ lint.calls[j].rule = "MD009"
           /\ lint.calls[j].config = None

\* C9 (Every built-in rule runs once): an engine built by LintEngine::new
\* holds the registry create_default_registry builds, and lint_content checks
\* each of those rules the config does not disable exactly once.
C9_BuiltinRulesRunOnce ==
    viaNew =>
        /\ engine.registry = create_default_registry
        /\ Linted =>
               \A name \in BuiltinRuleNames :
                   (name \in RuleNames => ~DisabledByConfig(name)) =>
                       Cardinality(CallsOf(name)) = 1

\* Positions of a violation in a sequence.
PositionsIn(vs, v) == {i \in 1..Len(vs) : vs[i] = v}
Range(vs) == {vs[i] : i \in 1..Len(vs)}
ReturnedByCalls == Concat([i \in 1..Len(lint.calls) |-> lint.calls[i].returned])

\* C10 (Sort invariant): the sequence lint_content returns is the stable sort
\* by line of what the invoked rules returned, in the order of emission: it
\* is non-decreasing in line, holds exactly those violations (none lost,
\* duplicated or added), and violations of equal line keep their order.
C10_SortInvariant ==
    Linted =>
        /\ \A i \in 1..(Len(lint.violations) - 1) :
               lint.violations[i].line <= lint.violations[i + 1].line
        /\ Len(lint.violations) = Len(ReturnedByCalls)
        /\ \A v \in Range(ReturnedByCalls) \cup Range(lint.violations) :
               Cardinality(PositionsIn(lint.violations, v)) =
                   Cardinality(PositionsIn(ReturnedByCalls, v))
        /\ \A i, j \in 1..Len(lint.violations) :
               (i < j /\ lint.violations[i].line = lint.violations[j].line) =>
                   \E a, b \in 1..Len(ReturnedByCalls) :
                       /\ a < b
                       /\ ReturnedByCalls[a] = lint.violations[i]
                       /\ ReturnedByCalls[b] = lint.violations[j]

\* Two rules reported out of line order, with a tie between them.
C10_Witness ==
    /\ Linted
    /\ Len(lint.calls) = 2
    /\ Len(lint.emitted) = 4
    /\ lint.emitted # lint.violations
    /\ \E i, j \in 1..Len(lint.violations) :
           /\ i < j
           /\ lint.violations[i].line = lint.violations[j].line
           /\ lint.violations[i].rule # lint.violations[j].rule

(***************************************************************************)
(* Claims C11..C20.                                                        *)
(***************************************************************************)
\* What each rule's check returned in the run recorded in lint; a rule that
\* was not called returned nothing.
ReturnedOf ==
    [n \in RuleNames |->
        IF CallsOf(n) = {} THEN <<>>
        ELSE lint.calls[CHOOSE i \in CallsOf(n) : TRUE].returned]
SameBag(vs, ws) ==
    /\ Len(vs) = Len(ws)
    /\ \A v \in Range(vs) \cup Range(ws) :
           Cardinality(PositionsIn(vs, v)) = Cardinality(PositionsIn(ws, v))

\* C11 (Determinism): a second lint_content run with the same content (the
\* checks return the same), the same config and the same registered rules
\* returns the same violations, counted with multiplicity, whatever order
\* all_rules yields the rules in.
C11_Determinism ==
    Linted =>
        \A order \in Orderings(engine.registry) :
            SameBag(lint_content(engine, order, ReturnedOf).violations,
                    lint.violations)

\* Two rules both reported, and the other iteration order returns the same
\* violations in a different sequence.
C11_Witness ==
    /\ Linted
    /\ Len(lint.calls) = 2
    /\ \A i \in 1..2 : lint.calls[i].returned # <<>>
    /\ \E order \in Orderings(engine.registry) :
           lint_content(engine, order, ReturnedOf).violations # lint.violations

(***************************************************************************)
(* SpecParser: a MarkdownParser of any content answers position queries.   *)
(***************************************************************************)
InitParser ==
    /\ content \in Contents
    /\ fixes = <<>> /\ result = Pending /\ disk = content /\ fileRet = Pending
    /\ LintIdle /\ LibIdle /\ CliIdle

\* MarkdownParser::offset_to_position(offset)
OffsetToPosition(offset) ==
    /\ query' = [op |-> "offset_to_position", offset |-> offset,
                 position |-> offset_to_position(ParserLines(content), offset)]
    /\ UNCHANGED <<fixVars, lintVars, lint_result, added, registry, registered, cliVars, ruleVars>>

\* MarkdownParser::line_offset_to_absolute(line_num, byte_offset_in_line)
LineOffsetToAbsolute(line_num, byte_offset_in_line) ==
    /\ query' = [op |-> "line_offset_to_absolute", line_num |-> line_num,
                 byte_offset_in_line |-> byte_offset_in_line,
                 absolute |-> line_offset_to_absolute(ParserLines(content), line_num,
                                                      byte_offset_in_line)]
    /\ UNCHANGED <<fixVars, lintVars, lint_result, added, registry, registered, cliVars, ruleVars>>

NextParser ==
    \/ \E offset \in 0..MaxOffset : OffsetToPosition(offset)
    \/ \E line_num \in 0..(MaxLines + 1), k \in 0..MaxOffset :
           LineOffsetToAbsolute(line_num, k)

SpecParser == InitParser /\ [][NextParser]_vars

\* C12 (1-indexed positions): for every content, the empty one included, and
\* every byte offset, offset_to_position returns a line >= 1 and a column
\* >= 1, and for an offset beyond the content it returns (last line, 1).
C12_OneIndexedPositions ==
    query.op = "offset_to_position" =>
        /\ query.position[1] >= 1
        /\ query.position[2] >= 1
        /\ query.offset > Len(content) =>
               query.position = <<Len(ParserLines(content)), 1>>

\* C20 (Offset round trip): for a line number L of the content and k from 0
\* to the byte length of line L,
\* offset_to_position(line_offset_to_absolute(L, k)) = (L, k + 1).
C20_OffsetRoundTrip ==
    (/\ query.op = "line_offset_to_absolute"
     /\ query.line_num \in 1..Len(ParserLines(content))
     /\ query.byte_offset_in_line <= Len(ParserLines(content)[query.line_num]))
        => offset_to_position(ParserLines(content), query.absolute) =
               <<query.line_num, query.byte_offset_in_line + 1>>

\* The end of the text of the second line of a "\r\n" content was asked for.
C20_Witness ==
    /\ query.op = "line_offset_to_absolute"
    /\ detect_line_ending(content) = <<CR, LF>>
    /\ query.line_num = 2
    /\ Len(ParserLines(content)) >= 2
    /\ query.byte_offset_in_line = Len(ParserLines(content)[2])
    /\ query.byte_offset_in_line = 2

(***************************************************************************)
(* SpecResult: a LintResult, from LintResult::new, under add_file_result.  *)
(***************************************************************************)
\* A variant of add_file_result that counts files, not violations.
add_file_result_counting_files(self, path, violations) ==
    [file_results |-> Append(self.file_results, [path |-> path, violations |-> violations]),
     total_errors |-> self.total_errors + 1]

\* LintResult::add_file_result(path, violations)
add_file_result(self, path, violations) ==
    [file_results |-> Append(self.file_results, [path |-> path, violations |-> violations]),
     total_errors |-> self.total_errors + Len(violations)]

\* LintResult::has_errors()
has_errors(self) == self.total_errors > 0

Paths == {"a.md", "b.md"}
ViolationLists ==
    {<<>>, <<Violation(1, None)>>, <<Violation(1, None), Violation(2, None)>>}

InitResult == FixIdle /\ LintIdle /\ LibIdle /\ CliIdle

AddFileResult(path, violations) ==
    /\ Len(added) < MaxAdds
    /\ lint_result' = add_file_result(lint_result, path, violations)
    /\ added' = Append(added, [path |-> path, violations |-> violations])
    /\ UNCHANGED <<fixVars, lintVars, query, registry, registered, cliVars, ruleVars>>

NextResult == \E path \in Paths, violations \in ViolationLists : AddFileResult(path, violations)

SpecResult == InitResult /\ [][NextResult]_vars

RECURSIVE SumOfViolations(_)
SumOfViolations(frs) ==
    IF frs = <<>> THEN 0
    ELSE SumOfViolations(Front(frs)) + Len(Last(frs).violations)

\* C15 (LintResult accounting): after any sequence of add_file_result calls
\* on a new LintResult, total_errors is the sum of the violation counts of
\* the file_results, file_results is what was added, in call order, and
\* has_errors() is true exactly when total_errors > 0.
C15_LintResultAccounting ==
    /\ lint_result.total_errors = SumOfViolations(lint_result.file_results)
    /\ lint_result.file_results = added
    /\ has_errors(lint_result) <=> lint_result.total_errors > 0
    /\ has_errors(lint_result) <=>
           \E i \in 1..Len(added) : added[i].violations # <<>>

\* Three results were added: one without violations, then two with some.
C15_Witness ==
    /\ Len(added) = 3
    /\ added[1].violations = <<>>
    /\ Len(added[2].violations) = 2
    /\ Len(added[3].violations) = 1
    /\ lint_result.total_errors = 3

(***************************************************************************)
(* SpecCli: run() and main() of main.rs on a list of files, one step per   *)
(* iteration of the lint loop and of the --fix loop.  A file is known by   *)
(* its index in the list.  What engine.lint_content returns for a file is  *)
(* drawn for any set of registered rules; with the engine LintEngine::new  *)
(* builds it is always empty.                                              *)
(***************************************************************************)
CliFixLists ==
    {<<>>} \cup {<<f>> : f \in {g \in FileFixes : ~HasColumns(g)}}
CliFiles ==
    [readable : BOOLEAN, writable : BOOLEAN, text : {<<"a", "b">>},
     violations : {<<>>} \cup {ViolationsCarrying(fl) : fl \in CliFixLists}]
CliFileLists == UNION {[1..n -> CliFiles] : n \in 0..MaxFiles}

InitCli ==
    /\ FixIdle /\ LintIdle /\ LibIdle
    /\ files \in CliFileLists
    /\ run = NotStarted

Done(r, exit_code) == [r EXCEPT !.phase = "done", !.exit = exit_code]
\* main(): Ok(had_errors) exits 1 or 0.
ExitOf(had_errors) == IF had_errors THEN 1 ELSE 0

\* run() up to the lint loop: "No markdown files found" returns Ok(false).
CliStart(fix) ==
    /\ run = NotStarted
    /\ LET r == [phase |-> "lint", fix |-> fix, i |-> 1, read |-> {}, linted |-> {},
                 seen |-> {},
                 fixing |-> {}, io_error |-> FALSE, fix_errors |-> {}, exit |-> 0]
       IN run' = IF files = <<>> THEN Done(r, ExitOf(FALSE)) ELSE r
    /\ UNCHANGED <<fixVars, lintVars, libVars, files, ruleVars>>

\* One iteration of "for file_path in &files"; run.seen keeps the content
\* that read_to_string gave for the file and that was linted.
CliLintFile ==
    /\ run.phase = "lint" /\ run.i <= Len(files)
    /\ LET f == files[run.i]
           r == [run EXCEPT !.read = @ \cup {run.i}]
       IN IF ~f.readable
          THEN /\ run' = Done([r EXCEPT !.io_error = TRUE], 2)
               /\ UNCHANGED <<lint_result, added>>
          ELSE /\ run' = [r EXCEPT !.linted = @ \cup {run.i},
                                    !.seen = @ \cup {<<run.i, f.text>>},
                                    !.i = @ + 1]
               /\ IF f.violations # <<>>
                  THEN /\ lint_result' = add_file_result(lint_result, run.i, f.violations)
                       /\ added' = Append(added, [path |-> run.i,
                                                  violations |-> f.violations])
                  ELSE UNCHANGED <<lint_result, added>>
    /\ UNCHANGED <<fixVars, lintVars, query, registry, registered, files, ruleVars>>

\* After the lint loop: "if cli.fix && lint_result.has_errors()", else the
\* output and Ok(lint_result.has_errors()).
CliAfterLint ==
    /\ run.phase = "lint" /\ run.i > Len(files)
    /\ run' = IF run.fix /\ has_errors(lint_result)
              THEN [run EXCEPT !.phase = "fix", !.i = 1]
              ELSE Done(run, ExitOf(has_errors(lint_result)))
    /\ UNCHANGED <<fixVars, lintVars, libVars, files, ruleVars>>

\* One iteration of "for file_result in &lint_result.file_results".
CliFixLoopFile ==
    /\ run.phase = "fix" /\ run.i <= Len(lint_result.file_results)
    /\ LET fr == lint_result.file_results[run.i]
           f == files[fr.path]
           fixable == SelectSeq(fr.violations, LAMBDA v : IsSome(v.fix))
           r == apply_fixes_to_content(f.text, FilterMapFix(fixable))
           next == [run EXCEPT !.i = @ + 1]
           tried == [next EXCEPT !.fixing = @ \cup {fr.path}]
       IN IF fixable = <<>>
          THEN run' = next /\ files' = files
          ELSE IF r.kind = "Panic"
          THEN run' = Done(tried, 101) /\ files' = files
          ELSE IF r.kind = "Err"
          THEN /\ run' = [tried EXCEPT !.fix_errors = @ \cup {fr.path}]
               /\ files' = files
          ELSE IF ~f.writable
          THEN /\ run' = Done([tried EXCEPT !.io_error = TRUE], 2)
               /\ \E t \in AfterFailedWrite(f.text) :
                      files' = [files EXCEPT ![fr.path].text = t]
          ELSE /\ run' = tried
               /\ files' = [files EXCEPT ![fr.path].text = r.content]
    /\ UNCHANGED <<fixVars, lintVars, libVars, ruleVars>>

\* After the --fix loop: the output and Ok(lint_result.has_errors()).
CliAfterFix ==
    /\ run.phase = "fix" /\ run.i > Len(lint_result.file_results)
    /\ run' = Done(run, ExitOf(has_errors(lint_result)))
    /\ UNCHANGED <<fixVars, lintVars, libVars, files, ruleVars>>

NextCli ==
    \/ \E fix \in BOOLEAN : CliStart(fix)
    \/ CliLintFile
    \/ CliAfterLint
    \/ CliFixLoopFile
    \/ CliAfterFix

SpecCli == InitCli /\ [][NextCli]_vars

RunDone == run.phase = "done"
ViolationsFound == lint_result.total_errors > 0
OperationalFailure == run.io_error \/ run.fix_errors # {}
\* The runs of the program as built: lint_content never returns a violation.
AsBuilt == \A i \in 1..Len(files) : files[i].violations = <<>>

C14_PerFileIsolation ==
    RunDone =>
        \A i \in 1..Len(files) :
            /\ i \in run.read
            /\ (/\ run.fix
                /\ files[i].readable
                /\ \E k \in 1..Len(files[i].violations) :
                       IsSome(files[i].violations[k].fix))
                   => i \in run.fixing

(***************************************************************************)
(* SpecRegistry: a RuleRegistry, from RuleRegistry::new, under register.   *)
(***************************************************************************)
\* RuleRegistry::get(name)
get(reg, name) ==
    IF \E r \in reg : r.name = name
    THEN Some(CHOOSE r \in reg : r.name = name)
    ELSE None

\* The rule objects handed to register: two instances per name.
Instances == {1, 2}
Rules == {Rule(n, k) : n \in RuleNames, k \in Instances}
\* The names get is asked for: those of the rules and one never registered.
LookupNames == RuleNames \cup {"MD999"}

InitRegistry == FixIdle /\ LintIdle /\ LibIdle /\ CliIdle

Register(rule) ==
    /\ Len(registered) < MaxRegisters
    /\ registry' = register(registry, rule)
    /\ registered' = Append(registered, rule)
    /\ UNCHANGED <<fixVars, lintVars, query, lint_result, added, cliVars, ruleVars>>

NextRegistry == \E rule \in Rules : Register(rule)

SpecRegistry == InitRegistry /\ [][NextRegistry]_vars

RegistrationsOf(name) == {i \in 1..Len(registered) : registered[i].name = name}
MaxOf(S) == CHOOSE x \in S : \A y \in S : y <= x

\* C16 (Registry lookup): after any sequence of register calls, get(name)
\* returns the rule most recently registered under the name, and None for a
\* name never registered; all_rules yields exactly one rule per distinct
\* registered name.
C16_RegistryLookup ==
    /\ \A name \in LookupNames :
           IF RegistrationsOf(name) = {}
           THEN get(registry, name) = None
           ELSE get(registry, name) = Some(registered[MaxOf(RegistrationsOf(name))])
    /\ \A order \in Orderings(registry) :
           /\ {order[i].name : i \in 1..Len(order)} =
                  {registered[i].name : i \in 1..Len(registered)}
           /\ \A i, j \in 1..Len(order) : i # j => order[i].name # order[j].name

\* One name registered twice with different rules, the other once.
C16_Witness ==
    /\ Len(registered) = 3
    /\ registered[1] = Rule("MD001", 1)
    /\ registered[2] = Rule("MD009", 1)
    /\ registered[3] = Rule("MD001", 2)
    /\ get(registry, "MD001") = Some(Rule("MD001", 2))

(***************************************************************************)
(* Claims about the fix engine, under Spec.                                *)
(***************************************************************************)
\* The lines a fix names: line_start..line_end.
SpanOf(f) == f.line_start..f.line_end

\* C17 (Multi-line conflict): two fixes of which at least one spans more
\* than one line and whose line spans share a line make
\* apply_fixes_to_content fail with a Fix error, also when both have the
\* same span and carry disjoint column ranges.
C17_MultiLineConflict ==
    Returned =>
        \A i, j \in 1..Len(fixes) :
            (/\ i # j
             /\ fixes[i].line_start < fixes[i].line_end
             /\ SpanOf(fixes[i]) \cap SpanOf(fixes[j]) # {})
                => (result.kind = "Err" /\ result.error = "Fix")

\* The text a fix names in the lines: characters column_start..column_end of
\* its line for a column fix, lines line_start..line_end otherwise; nothing
\* when the coordinates lie outside the lines.
SafeSub(s, lo, hi) ==
    IF lo >= 1 /\ hi <= Len(s) THEN <<SubSeq(s, lo, hi)>> ELSE <<>>
TargetRegion(lines, f) ==
    IF f.line_start = f.line_end /\ HasColumns(f)
    THEN IF f.line_start \in 1..Len(lines)
         THEN SafeSub(lines[f.line_start], Unwrap(f.column_start), Unwrap(f.column_end))
         ELSE <<>>
    ELSE SafeSub(lines, f.line_start, f.line_end)

\* Along the loop over the sorted fixes: every fix that is applied finds in
\* its target region the text the original lines have there.
RECURSIVE RegionsIntact(_, _, _)
RegionsIntact(lines, todo, original) ==
    \/ todo = <<>>
    \/ apply_single_fix(lines, Head(todo)).end # "ok"
    \/ /\ TargetRegion(lines, Head(todo)) = TargetRegion(original, Head(todo))
       /\ RegionsIntact(apply_single_fix(lines, Head(todo)).lines, Tail(todo), original)

\* Descending line_start and, within a line, descending column_start.
Descending(sorted) ==
    \A i \in 1..(Len(sorted) - 1) :
        /\ sorted[i].line_start >= sorted[i + 1].line_start
        /\ (/\ sorted[i].line_start = sorted[i + 1].line_start
            /\ IsSome(sorted[i].column_start) /\ IsSome(sorted[i + 1].column_start))
               => Unwrap(sorted[i].column_start) >= Unwrap(sorted[i + 1].column_start)

\* C18 (Coordinates stay valid during application): for a fix list not
\* rejected as conflicting, the fixes are applied in descending line_start
\* and, within a line, descending column_start, and each fix, when it is
\* applied, finds in its target region the text of the original content,
\* also when two column fixes on a line share their column_start.
C18_CoordinatesStayValid ==
    (Returned /\ result # FixError("overlap")) =>
        /\ Descending(sort_fixes(fixes))
        /\ RegionsIntact(Lines(content), sort_fixes(fixes), Lines(content))

\* A line of the fix exceeds the line count, or a column of a column fix
\* exceeds the character count of its line.
OutOfBounds(lines, f) ==
    \/ f.line_start > Len(lines)
    \/ f.line_end > Len(lines)
    \/ /\ f.line_start = f.line_end /\ HasColumns(f)
       /\ \/ Unwrap(f.column_start) > Len(lines[f.line_start])
          \/ Unwrap(f.column_end) > Len(lines[f.line_start])
BoundsErrors == {"start_line", "end_line", "column"}

\* The loop over the sorted fixes comes to a fix that is out of bounds for
\* the lines as they are then.
RECURSIVE OutOfBoundsReached(_, _)
OutOfBoundsReached(lines, todo) ==
    /\ todo # <<>>
    /\ \/ OutOfBounds(lines, Head(todo))
       \/ /\ apply_single_fix(lines, Head(todo)).end = "ok"
          /\ OutOfBoundsReached(apply_single_fix(lines, Head(todo)).lines, Tail(todo))

\* The loop comes to a fix that is within bounds and is rejected all the same.
RECURSIVE RejectedInBounds(_, _)
RejectedInBounds(lines, todo) ==
    /\ todo # <<>>
    /\ \/ /\ ~OutOfBounds(lines, Head(todo))
          /\ apply_single_fix(lines, Head(todo)).end \in BoundsErrors
       \/ /\ apply_single_fix(lines, Head(todo)).end = "ok"
          /\ RejectedInBounds(apply_single_fix(lines, Head(todo)).lines, Tail(todo))

\* C19 (Out-of-bounds rejection): apply_fixes_to_content returns a Fix error
\* whenever a fix it comes to apply has line_start or line_end beyond the
\* line count of that moment, or is a column fix with column_start or
\* column_end beyond the character count of its line; a fix within those
\* bounds is never rejected as out of bounds.
C19_OutOfBoundsRejection ==
    (Returned /\ fixes # <<>> /\ result # FixError("overlap")) =>
        /\ OutOfBoundsReached(Lines(content), sort_fixes(fixes)) =>
               (result.kind = "Err" /\ result.error = "Fix")
        /\ ~RejectedInBounds(Lines(content), sort_fixes(fixes))
        /\ (result.kind = "Err" /\ result.message \in BoundsErrors) =>
               OutOfBoundsReached(Lines(content), sort_fixes(fixes))

\* A fix was applied, then a column fix on a line of the text was rejected
\* for its column_end alone.
C19_Witness ==
    /\ Returned
    /\ Len(fixes) = 2
    /\ result = FixError("column")
    /\ apply_run(content, fixes).applied = 1
    /\ \E i \in 1..2 :
           /\ HasColumns(fixes[i])
           /\ fixes[i].line_start = 1 /\ fixes[i].line_end = 1
           /\ Unwrap(fixes[i].column_start) <= Len(Lines(content)[1])
           /\ Unwrap(fixes[i].column_end) > Len(Lines(content)[1])

(***************************************************************************)
(* lint/rules: the check functions of single rules, on the lines of a      *)
(* MarkdownParser.  A rule's check is called with the Option<Value> that    *)
(* lint_content hands on.                                                    *)
(***************************************************************************)
MaxDocLines == 3    \* lines of a document handed to a rule's check

\* serde_json::Value::get(key) and Value::as_str()
value_get(v, k) == IF v.json = "Object" THEN MapGet(v.fields, k) ELSE None
as_str(v) == IF v.json = "String" THEN Some(v.string) ELSE None
and_then_get(cfg, k) == IF IsSome(cfg) THEN value_get(Unwrap(cfg), k) ELSE None
and_then_as_str(v) == IF IsSome(v) THEN as_str(Unwrap(v)) ELSE None
unwrap_or(opt, default) == IF IsSome(opt) THEN Unwrap(opt) ELSE default

\* char::is_whitespace, str::trim_start, str::trim().is_empty(), str::find,
\* str::starts_with on one character, char::is_ascii_digit, str::parse::<usize>
is_whitespace(c) == c \in {" ", CR, LF}
RECURSIVE trim_start(_)
trim_start(line) ==
    IF line # <<>> /\ is_whitespace(Head(line)) THEN trim_start(Tail(line)) ELSE line
trim_is_empty(line) == \A i \in 1..Len(line) : is_whitespace(line[i])
\* the 0-based index of the first c in line, if any
find(line, c) ==
    IF \E i \in 1..Len(line) : line[i] = c
    THEN Some((CHOOSE i \in 1..Len(line) : line[i] = c /\ \A j \in 1..(i - 1) : line[j] # c) - 1)
    ELSE None
starts_with(line, c) == line # <<>> /\ Head(line) = c
AsciiDigits == {"0", "1", "2", "3", "4", "5", "6", "7", "8", "9"}
is_ascii_digit(c) == c \in AsciiDigits
DigitValue(c) ==
    CASE c = "0" -> 0 [] c = "1" -> 1 [] c = "2" -> 2 [] c = "3" -> 3 [] c = "4" -> 4
      [] c = "5" -> 5 [] c = "6" -> 6 [] c = "7" -> 7 [] c = "8" -> 8 [] c = "9" -> 9
RECURSIVE parse_usize_from(_, _)
parse_usize_from(digits, acc) ==
    IF digits = <<>> THEN acc
    ELSE parse_usize_from(Tail(digits), 10 * acc + DigitValue(Head(digits)))
\* parse fails only on overflow of usize, which takes twenty digits
parse_usize(digits) == parse_usize_from(digits, 0)

(***************************************************************************)
(* md029.rs: ordered list item prefix                                      *)
(***************************************************************************)
MD029Start ==
    [expected_num |-> 1, in_ordered_list |-> FALSE,
     consecutive_blank_lines |-> 0, seen_non_one |-> FALSE, violations |-> <<>>]
MD029Reset(st) ==
    [st EXCEPT !.in_ordered_list = FALSE, !.expected_num = 1, !.seen_non_one = FALSE]

\* The match on style that gives is_valid.
md029_is_valid(style, num, expected_num, seen_non_one) ==
    CASE style = "one" -> num = 1
      [] style = "ordered" -> num = expected_num
      [] OTHER -> IF seen_non_one THEN num = expected_num
                  ELSE num = 1 \/ num = expected_num

\* One pass of the loop body, on the line with 0-based index line_num.
md029_line(st, style, line_num, line) ==
    LET trimmed == trim_start(line)
        dot == find(trimmed, ".")
    IN IF trim_is_empty(line)
       THEN LET blanks == st.consecutive_blank_lines + 1
                counted == [st EXCEPT !.consecutive_blank_lines = blanks]
            IN IF blanks >= 2 THEN MD029Reset(counted) ELSE counted
       ELSE LET s0 == [st EXCEPT !.consecutive_blank_lines = 0]
            IN IF IsSome(dot)
               THEN LET prefix == Take(trimmed, Unwrap(dot))
                    IN IF prefix # <<>> /\ \A i \in 1..Len(prefix) : is_ascii_digit(prefix[i])
                       THEN LET num == parse_usize(prefix)
                                s1 == IF ~s0.in_ordered_list
                                      THEN [s0 EXCEPT !.in_ordered_list = TRUE,
                                                      !.expected_num = 1,
                                                      !.seen_non_one = FALSE]
                                      ELSE s0
                                s2 == IF num # 1 THEN [s1 EXCEPT !.seen_non_one = TRUE] ELSE s1
                                is_valid == md029_is_valid(style, num, s2.expected_num,
                                                           s2.seen_non_one)
                                should_be == IF style = "one" THEN 1 ELSE s2.expected_num
                                s3 == IF ~is_valid
                                      THEN [s2 EXCEPT !.violations = Append(@,
                                              [line |-> line_num + 1,
                                               column |-> Some(Len(line) - Len(trimmed) + 1),
                                               rule |-> "MD029",
                                               message |-> [expected |-> should_be, found |-> num],
                                               fix |-> None])]
                                      ELSE s2
                            IN [s3 EXCEPT !.expected_num = @ + 1]
                       ELSE MD029Reset(s0)
               ELSE IF ~starts_with(trimmed, "*") /\ ~starts_with(trimmed, "+")
                       /\ ~starts_with(trimmed, "-")
               THEN MD029Reset(s0)
               ELSE s0

RECURSIVE md029_loop(_, _, _, _)
md029_loop(st, style, ls, line_num) ==
    IF line_num >= Len(ls) THEN st
    ELSE md029_loop(md029_line(st, style, line_num, ls[line_num + 1]), style, ls, line_num + 1)

\* MD029::check(parser, config)
MD029_style(cfg) == unwrap_or(and_then_as_str(and_then_get(cfg, "style")), "one_or_ordered")
MD029_check(ls, cfg) == md029_loop(MD029Start, MD029_style(cfg), ls, 0).violations

(***************************************************************************)
(* SpecMD029: one call of MD029::check on a document of at most            *)
(* MaxDocLines lines, under each of the three styles and without a style.  *)
(***************************************************************************)
MD029Lines ==
    {<<>>, <<"1", ".">>, <<"2", ".">>, <<"3", ".">>,
     <<"-", " ", "a">>, <<"-", " ", "a", ".">>, <<"a">>}
RECURSIVE DocsOf(_, _)
DocsOf(lineSet, n) ==
    IF n = 0 THEN {<<>>}
    ELSE LET shorter == DocsOf(lineSet, n - 1)
         IN shorter \cup {Append(d, l) : d \in {x \in shorter : Len(x) = n - 1}, l \in lineSet}
MD029Contents == {Join(d, <<LF>>) : d \in DocsOf(MD029Lines, MaxDocLines)}
StyleConfig(style) == Some(JObject({Entry("style", JString(style))}))
MD029Configs == {None, StyleConfig("one"), StyleConfig("ordered"), StyleConfig("one_or_ordered")}

InitMD029 ==
    /\ content \in MD029Contents
    /\ fixes = <<>> /\ result = Pending /\ disk = content /\ fileRet = Pending
    /\ LintIdle /\ LibIdle /\ CliIdle

MD029Check(cfg) ==
    /\ checked' = [rule |-> "MD029", config |-> cfg,
                   violations |-> MD029_check(ParserLines(content), cfg)]
    /\ UNCHANGED <<fixVars, lintVars, libVars, cliVars, loaded, dirs>>

NextMD029 == \E cfg \in MD029Configs : MD029Check(cfg)
SpecMD029 == InitMD029 /\ [][NextMD029]_vars

\* The reading of a line as the claim names it: blank, an ordered-list item
\* (digits up to the first "."), a line of a bullet list, or a non-list line.
DocLines == ParserLines(content)
IsBlankLine(l) == trim_is_empty(l)
IsItemLine(l) ==
    LET t == trim_start(l)
        d == find(t, ".")
    IN ~IsBlankLine(l) /\ IsSome(d) /\ Unwrap(d) > 0
       /\ \A i \in 1..Unwrap(d) : is_ascii_digit(t[i])
ItemNumber(l) == LET t == trim_start(l) IN parse_usize(Take(t, Unwrap(find(t, "."))))
IsBulletLine(l) == ~IsBlankLine(l) /\ ~IsItemLine(l) /\ Head(trim_start(l)) \in {"*", "+", "-"}
IsNonListLine(l) == ~IsBlankLine(l) /\ ~IsItemLine(l) /\ ~IsBulletLine(l)
\* the list is over after line j: a non-list line, or the second of two blank lines
EndsList(j) ==
    \/ IsNonListLine(DocLines[j])
    \/ j > 1 /\ IsBlankLine(DocLines[j]) /\ IsBlankLine(DocLines[j - 1])
\* the items of the current list up to line i
ListItemsUpTo(i) ==
    {k \in 1..i : IsItemLine(DocLines[k]) /\ \A j \in k..i : ~EndsList(j)}
PositionOf(i) == Cardinality(ListItemsUpTo(i))
OnlyOnesSeen(i) == \A k \in ListItemsUpTo(i) \ {i} : ItemNumber(DocLines[k]) = 1
ShouldReport(style, i) ==
    LET num == ItemNumber(DocLines[i])
    IN CASE style = "one" -> num # 1
         [] style = "ordered" -> num # PositionOf(i)
         [] OTHER -> IF OnlyOnesSeen(i) THEN num # 1 /\ num # PositionOf(i)
                     ELSE num # PositionOf(i)
MD029Checked == checked.rule = "MD029"
ReportedLines == {checked.violations[i].line : i \in 1..Len(checked.violations)}

\* C21: MD029 reports an ordered-list item exactly when its number breaks the
\* style in force, the position counting the items of the current list, which
\* ends at a non-list line or at two consecutive blank lines.
C21_MD029ThreeStyles ==
    MD029Checked =>
        ReportedLines = {i \in 1..Len(DocLines) :
                            IsItemLine(DocLines[i])
                            /\ ShouldReport(MD029_style(checked.config), i)}

\* The lines of the content that no fix of the list names, in order.
CoveredBy(fl, n) == \E i \in 1..Len(fl) : fl[i].line_start <= n /\ n <= fl[i].line_end
RECURSIVE UncoveredFrom(_, _, _)
UncoveredFrom(ls, fl, n) ==
    IF n > Len(ls) THEN <<>>
    ELSE (IF CoveredBy(fl, n) THEN <<>> ELSE <<ls[n]>>) \o UncoveredFrom(ls, fl, n + 1)
RECURSIVE IsSubsequence(_, _)
IsSubsequence(s, t) ==
    \/ s = <<>>
    \/ /\ t # <<>>
       /\ IF Head(s) = Head(t) THEN IsSubsequence(Tail(s), Tail(t))
          ELSE IsSubsequence(s, Tail(t))
EndsWithTerminator(text) == text # <<>> /\ Last(text) = LF
\* measured on the lines the call joins into its result
UntargetedLinesKept ==
    IsSubsequence(UncoveredFrom(OrigLines, fixes, 1), apply_run(content, fixes).lines)

\* C22 (Untargeted bytes are preserved): after a successful application of a
\* fix list, every line no fix covers is in the output, unchanged and in the
\* same order, and the output ends with a line terminator exactly when the
\* input did.
C22_UntargetedPreserved ==
    (Returned /\ result.kind = "Ok" /\ fixes # <<>>) =>
        /\ UntargetedLinesKept
        /\ EndsWithTerminator(result.content) <=> EndsWithTerminator(content)

(***************************************************************************)
(* SpecAny: one call of apply_fixes_to_content with a Fix whose fields are *)
(* any unsigned numbers up to MaxAnyLine: line 0, line_end below           *)
(* line_start and column_start above column_end included.                  *)
(***************************************************************************)
MaxAnyLine == 3     \* line and column numbers of an unconstrained Fix; lines of its content

AnyLineSeqs == UNION {[1..n -> {<<>>, <<"a", "b">>}] : n \in 0..MaxAnyLine}
AnyContents == {Join(ls, <<LF>>) \o (IF t THEN <<LF>> ELSE <<>>) : ls \in AnyLineSeqs, t \in BOOLEAN}
AnyColumns ==
    {<<None, None>>} \cup
    {<<Some(cs), Some(ce)>> : cs \in 0..MaxAnyLine, ce \in 0..MaxAnyLine}
AnyFixes ==
    {[line_start |-> ls, line_end |-> le,
      column_start |-> c[1], column_end |-> c[2], replacement |-> r] :
        ls \in 0..MaxAnyLine, le \in 0..MaxAnyLine, c \in AnyColumns,
        r \in {<<>>, <<"X">>}}

InitAny ==
    /\ content \in AnyContents
    /\ fixes \in {<<>>} \cup {<<f>> : f \in AnyFixes}
    /\ result = Pending
    /\ disk = content
    /\ fileRet = Pending
    /\ LintIdle /\ LibIdle /\ CliIdle
SpecAny == InitAny /\ [][Next]_vars

\* C23 (Totality of the fix engine): for every content and every list of Fix
\* values, whatever its line and column numbers, apply_fixes_to_content
\* returns a corrected string or a Fix error; it never panics.
C23_Totality ==
    Returned => result.kind \in {"Ok", "Err"}

(***************************************************************************)
(* md009.rs, md012.rs, md047.rs: rules whose violations carry a Fix.  A     *)
(* violation is modelled by its line, column, rule and fix; the message    *)
(* and the description of the fix are left out.                            *)
(***************************************************************************)
JNumber(n) == [json |-> "Number", number |-> n]
as_u64(v) == IF v.json = "Number" THEN Some(v.number) ELSE None
as_bool(v) == IF v.json = "Bool" THEN Some(v.bool) ELSE None
\* config.and_then(|c| c.get(key)).and_then(as_...).unwrap_or(default)
option_u64(cfg, key, default) ==
    LET v == IF IsSome(cfg) THEN value_get(Unwrap(cfg), key) ELSE None
    IN unwrap_or(IF IsSome(v) THEN as_u64(Unwrap(v)) ELSE None, default)
option_bool(cfg, key, default) ==
    LET v == IF IsSome(cfg) THEN value_get(Unwrap(cfg), key) ELSE None
    IN unwrap_or(IF IsSome(v) THEN as_bool(Unwrap(v)) ELSE None, default)

RECURSIVE trim_end(_)
trim_end(line) ==
    IF line # <<>> /\ is_whitespace(Last(line)) THEN trim_end(Front(line)) ELSE line
saturating_sub(a, b) == IF a > b THEN a - b ELSE 0
LineFix(line_start, line_end, replacement) ==
    [line_start |-> line_start, line_end |-> line_end,
     column_start |-> None, column_end |-> None, replacement |-> replacement]
RuleViolation(rule, line, column, fix) ==
    [line |-> line, column |-> Some(column), rule |-> rule, fix |-> Some(fix)]

\* MD009::check: the violation of the line with 0-based index line_num, if any.
md009_line(line_num, line, br_spaces, strict) ==
    LET trimmed == trim_end(line)
        trailing_spaces == Len(line) - Len(trimmed)
    IN IF trailing_spaces > 0 /\ ~(~strict /\ trailing_spaces = br_spaces)
       THEN <<RuleViolation("MD009", line_num + 1, Len(trimmed) + 1,
                [line_start |-> line_num + 1, line_end |-> line_num + 1,
                 column_start |-> Some(Len(trimmed) + 1),
                 column_end |-> Some(Len(line) + 1),
                 replacement |-> <<>>])>>
       ELSE <<>>
MD009_check(ls, cfg) ==
    LET br_spaces == option_u64(cfg, "br_spaces", 2)
        strict == option_bool(cfg, "strict", FALSE)
    IN Concat([i \in 1..Len(ls) |-> md009_line(i - 1, ls[i], br_spaces, strict)])

\* MD012::check: the violation pushed for a run of consecutive_blank blank
\* lines that began at blank_start_line, if the run exceeds maximum.
md012_push(st, maximum) ==
    IF st.consecutive_blank > maximum
    THEN Append(st.violations,
                RuleViolation("MD012", st.blank_start_line + maximum, 1,
                    LineFix(st.blank_start_line + maximum,
                            st.blank_start_line + st.consecutive_blank - 1, <<>>)))
    ELSE st.violations
md012_line(st, maximum, line_num, line) ==
    IF trim_is_empty(line)
    THEN [st EXCEPT !.blank_start_line =
                        IF st.consecutive_blank = 0 THEN line_num + 1 ELSE @,
                    !.consecutive_blank = @ + 1]
    ELSE [st EXCEPT !.violations = md012_push(st, maximum), !.consecutive_blank = 0]
RECURSIVE md012_loop(_, _, _, _)
md012_loop(st, maximum, ls, line_num) ==
    IF line_num >= Len(ls) THEN st
    ELSE md012_loop(md012_line(st, maximum, line_num, ls[line_num + 1]),
                    maximum, ls, line_num + 1)
MD012_check(ls, cfg) ==
    LET maximum == option_u64(cfg, "maximum", 1)
        st == md012_loop([consecutive_blank |-> 0, blank_start_line |-> 0,
                          violations |-> <<>>], maximum, ls, 0)
    IN md012_push(st, maximum)

\* content.chars().rev().take_while(|&c| c == '\n').count()
RECURSIVE trailing_newlines(_)
trailing_newlines(text) ==
    IF text # <<>> /\ Last(text) = LF THEN 1 + trailing_newlines(Front(text)) ELSE 0
ends_with(text, suffix) ==
    Len(text) >= Len(suffix) /\ Drop(text, Len(text) - Len(suffix)) = suffix
Max2(a, b) == IF a >= b THEN a ELSE b
\* MD047::check(parser, _config), on the content of the parser
MD047_check(text) ==
    LET ls == ParserLines(text)
    IN IF text = <<>> THEN <<>>
       ELSE IF ~ends_with(text, <<LF>>)
       THEN LET last_line == IF ls = <<>> THEN <<>> ELSE Last(ls)
            IN <<RuleViolation("MD047", Len(ls), 1,
                               LineFix(Len(ls), Len(ls), last_line \o <<LF>>))>>
       ELSE IF ends_with(text, <<LF, LF>>) /\ trailing_newlines(text) > 1
       THEN LET last_content_line_idx == saturating_sub(Len(ls), trailing_newlines(text))
                last_content_line ==
                    IF last_content_line_idx > 0 THEN ls[last_content_line_idx] ELSE <<>>
            IN <<RuleViolation("MD047", Len(ls), 1,
                               LineFix(Max2(last_content_line_idx, 1), Len(ls),
                                       IF last_content_line_idx > 0
                                       THEN last_content_line \o <<LF>>
                                       ELSE <<LF>>))>>
       ELSE <<>>

(***************************************************************************)
(* md031.rs: fenced code blocks surrounded by blank lines.  The events of  *)
(* pulldown_cmark are modelled for fences of three backticks at the start  *)
(* of a line: a block opens at a fence line, closes at the next fence line *)
(* or at the end of the text.  The range of a block starts at its opening  *)
(* fence and ends after the text of its closing fence or, past_newline,    *)
(* after the line terminator that follows it.                              *)
(***************************************************************************)
BQ == "BQ"    \* the backtick character
IsFence(line) == Len(line) >= 3 /\ Take(line, 3) = <<BQ, BQ, BQ>>
RECURSIVE LineStart(_, _)
LineStart(ls, i) == IF i <= 1 THEN 0 ELSE LineStart(ls, i - 1) + Len(ls[i - 1]) + 1
\* the (opening, closing) line numbers of the fenced blocks from line i on;
\* closing = 0 for a block that is still open at the end of the text
RECURSIVE FencedBlocks(_, _, _)
FencedBlocks(ls, i, open) ==
    IF i > Len(ls) THEN (IF open > 0 THEN <<<<open, 0>>>> ELSE <<>>)
    ELSE IF IsFence(ls[i])
    THEN IF open > 0 THEN <<<<open, i>>>> \o FencedBlocks(ls, i + 1, 0)
         ELSE FencedBlocks(ls, i + 1, i)
    ELSE FencedBlocks(ls, i + 1, open)
BlockRange(text, ls, block, past_newline) ==
    [start |-> LineStart(ls, block[1]),
     end |-> IF block[2] = 0 THEN Len(text)
             ELSE LET after_fence == LineStart(ls, block[2]) + Len(ls[block[2]])
                  IN IF past_newline /\ after_fence < Len(text)
                     THEN after_fence + 1 ELSE after_fence]
offset_to_line(ls, offset) == offset_to_position(ls, offset)[1]

md031_before(ls, start_line) ==
    LET line_idx == start_line - 1
    IN IF line_idx > 0 /\ ~trim_is_empty(ls[line_idx])
       THEN <<RuleViolation("MD031", start_line, 1,
                  LineFix(line_idx, line_idx, <<LF>> \o ls[line_idx + 1]))>>
       ELSE <<>>
md031_after(ls, end_line) ==
    LET line_idx == end_line - 1
    IN IF line_idx + 1 < Len(ls) /\ ~trim_is_empty(ls[line_idx + 2])
       THEN <<RuleViolation("MD031", end_line, 1,
                  LineFix(line_idx + 1, line_idx + 1, ls[line_idx + 1] \o <<LF>>))>>
       ELSE <<>>
\* MD031::check(parser, _config)
MD031_check(text, past_newline) ==
    LET ls == ParserLines(text)
        blocks == FencedBlocks(ls, 1, 0)
        ranges == [b \in 1..Len(blocks) |-> BlockRange(text, ls, blocks[b], past_newline)]
        code_block_starts == [b \in 1..Len(blocks) |-> offset_to_line(ls, ranges[b].start)]
        code_block_ends == [b \in 1..Len(blocks) |-> offset_to_line(ls, ranges[b].end)]
    IN Concat([b \in 1..Len(blocks) |-> md031_before(ls, code_block_starts[b])])
       \o Concat([b \in 1..Len(blocks) |-> md031_after(ls, code_block_ends[b])])

(***************************************************************************)
(* SpecRules: the check of one fixable rule on a document of at most       *)
(* MaxRuleLines lines, followed by apply_fixes_to_content on the same      *)
(* content with the fixes the check emitted, as the --fix loop of run()    *)
(* does with the violations of a file.                                     *)
(***************************************************************************)
MaxRuleLines == 4   \* lines of a document handed to a fixable rule

RuleLines == {<<>>, <<"a">>, <<"a", " ">>, <<"a", " ", " ">>, <<BQ, BQ, BQ>>}
RuleContents ==
    {Join(d, <<LF>>) \o (IF t THEN <<LF>> ELSE <<>>) :
        d \in DocsOf(RuleLines, MaxRuleLines), t \in BOOLEAN}
MD009Configs ==
    {None, Some(JObject({Entry("strict", JBool(TRUE))})),
     Some(JObject({Entry("br_spaces", JNumber(1))}))}
MD012Configs ==
    {None, Some(JObject({Entry("maximum", JNumber(0))})),
     Some(JObject({Entry("maximum", JNumber(2))}))}

InitRules ==
    /\ content \in RuleContents
    /\ fixes = <<>> /\ result = Pending /\ disk = content /\ fileRet = Pending
    /\ LintIdle /\ LibIdle /\ CliIdle

\* rule.check(&parser, config) on MarkdownParser::new(content); the fixes of
\* the violations are collected for the fixer.
CheckRule(rule, cfg, violations) ==
    /\ checked = NoCheck /\ result = Pending
    /\ checked' = [rule |-> rule, config |-> cfg, violations |-> violations]
    /\ fixes' = FilterMapFix(violations)
    /\ UNCHANGED <<content, result, disk, fileRet, lintVars, libVars, cliVars, loaded, dirs>>
MD009Check(cfg) == CheckRule("MD009", cfg, MD009_check(ParserLines(content), cfg))
MD012Check(cfg) == CheckRule("MD012", cfg, MD012_check(ParserLines(content), cfg))
MD047Check == CheckRule("MD047", None, MD047_check(content))
MD031Check(past_newline) ==
    CheckRule("MD031", None, MD031_check(content, past_newline))
\* apply_fixes_to_content(&content, &fixes) with the collected fixes
ApplyEmittedFixes ==
    /\ checked # NoCheck
    /\ ApplyFixesToContent

NextRules ==
    \/ \E cfg \in MD009Configs : MD009Check(cfg)
    \/ \E cfg \in MD012Configs : MD012Check(cfg)
    \/ MD047Check
    \/ \E past_newline \in BOOLEAN : MD031Check(past_newline)
    \/ ApplyEmittedFixes
SpecRules == InitRules /\ [][NextRules]_vars

Checked(rule) == checked # NoCheck /\ checked.rule = rule
Applied(rule) == Checked(rule) /\ Returned
\* the lines named by the violations of the check
FlaggedLines == {checked.violations[i].line : i \in 1..Len(checked.violations)}

\* C24 (MD009 fixes are applicable): the fixes MD009::check emits on a content
\* are accepted by apply_fixes_to_content on the same content, and in the
\* result each flagged line is the original line without its trailing
\* whitespace.
C24_MD009FixesApplicable ==
    Applied("MD009") =>
        /\ result.kind = "Ok"
        /\ \A n \in FlaggedLines :
               /\ n <= Len(Lines(result.content))
               /\ Lines(result.content)[n] = trim_end(OrigLines[n])

\* C25 (MD012 fix convergence): applying the fixes MD012::check emits on a
\* content and running MD012::check again on the result, under the same
\* maximum, yields no violation.
C25_MD012Convergence ==
    Applied("MD012") =>
        /\ result.kind = "Ok"
        /\ MD012_check(ParserLines(result.content), checked.config) = <<>>

\* The lines of a sequence that hold a non-whitespace character, in order.
RECURSIVE NonBlank(_)
NonBlank(ls) ==
    IF ls = <<>> THEN <<>>
    ELSE (IF trim_is_empty(Head(ls)) THEN <<>> ELSE <<Head(ls)>>) \o NonBlank(Tail(ls))
EndsWithOneLineBreak(text) == ends_with(text, <<LF>>) /\ ~ends_with(text, <<LF, LF>>)

\* C28 (MD047 fix touches only the end of the file): on a non-empty content,
\* applying the fix MD047::check emits keeps every line that holds a
\* non-whitespace character, unchanged and in order, and gives a text that
\* ends with exactly one line break.
C28_MD047OnlyTheEnd ==
    (Applied("MD047") /\ content # <<>> /\ fixes # <<>>) =>
        /\ result.kind = "Ok"
        /\ IsSubsequence(NonBlank(OrigLines), Lines(result.content))
        /\ EndsWithOneLineBreak(result.content)

\* The original lines with an empty line put before every line of the set
\* before and after every line of the set after.
RECURSIVE WithBlankLines(_, _, _, _)
WithBlankLines(ls, n, before, after) ==
    IF n > Len(ls) THEN <<>>
    ELSE (IF n \in before THEN <<<<>>>> ELSE <<>>) \o <<ls[n]>>
         \o (IF n \in after THEN <<<<>>>> ELSE <<>>)
         \o WithBlankLines(ls, n + 1, before, after)
\* The fences MD031 has to separate: an opening fence that follows a non-blank
\* line, a closing fence that is followed by a non-blank line.
OpeningFencesLackingBlank ==
    LET blocks == FencedBlocks(OrigLines, 1, 0)
    IN {blocks[b][1] : b \in {c \in 1..Len(blocks) :
            blocks[c][1] > 1 /\ ~trim_is_empty(OrigLines[blocks[c][1] - 1])}}
ClosingFencesLackingBlank ==
    LET blocks == FencedBlocks(OrigLines, 1, 0)
    IN {blocks[b][2] : b \in {c \in 1..Len(blocks) :
            /\ blocks[c][2] > 0 /\ blocks[c][2] < Len(OrigLines)
            /\ ~trim_is_empty(OrigLines[blocks[c][2] + 1])}}

\* C29 (MD031 fix only inserts blank lines): for a content with a fenced code
\* block that lacks a blank line before its opening fence or after its
\* closing fence, applying the fixes MD031::check emits keeps every original
\* line, unchanged and in order, and adds exactly one empty line directly
\* before such an opening fence and directly after such a closing fence.
C29_MD031OnlyInserts ==
    (Applied("MD031") /\ fixes # <<>>
        /\ OpeningFencesLackingBlank \cup ClosingFencesLackingBlank # {}) =>
        /\ result.kind = "Ok"
        /\ Lines(result.content) =
               WithBlankLines(OrigLines, 1, OpeningFencesLackingBlank,
                              ClosingFencesLackingBlank)

\* The lines of the content as they lie in it, terminators included, and the
\* byte offset of the first byte of line L.
Pieces == SplitInclusive(content, <<>>)
RECURSIVE FirstByteOf(_)
FirstByteOf(L) == IF L <= 1 THEN 0 ELSE FirstByteOf(L - 1) + Len(Pieces[L - 1])
InsideLine(o, L) == FirstByteOf(L) <= o /\ o < FirstByteOf(L) + Len(Pieces[L])

\* C26 (Positions match real bytes): for every content, "\r\n" content
\* included, and every byte offset o inside line L of it,
\* offset_to_position(o) is line L and column o - (first byte of L) + 1.
C26_PositionsMatchBytes ==
    query.op = "offset_to_position" =>
        \A L \in 1..Len(Pieces) :
            InsideLine(query.offset, L) =>
                query.position = <<L, query.offset - FirstByteOf(L) + 1>>

(***************************************************************************)
(* SpecRace: run() as in SpecCli, while another writer (a second run, an   *)
(* editor) may overwrite any of the files at any moment of the run.        *)
(***************************************************************************)
OtherTexts == {<<"a", "b">>, <<"b">>}
OtherWriter(p, text) ==
    /\ run.phase \in {"lint", "fix"}
    /\ p \in 1..Len(files)
    /\ files[p].text # text
    /\ files' = [files EXCEPT ![p].text = text]
    /\ UNCHANGED <<fixVars, lintVars, libVars, run, ruleVars>>

NextRace ==
    \/ NextCli
    \/ \E p \in 1..MaxFiles, text \in OtherTexts : OtherWriter(p, text)
SpecRace == InitCli /\ [][NextRace]_vars

\* The --fix loop takes up file p: it reads the file, applies the fixes of its
\* FileResult to what it read and overwrites the file.
FixTakesUp(p) == run.phase = "fix" /\ p \notin run.fixing /\ p \in run'.fixing

MaxDepth == 2       \* directories from the start directory up to the root

CONFIG_FILES ==
    <<".markdownlint-cli2.jsonc", ".markdownlint-cli2.yaml", ".markdownlint-cli2.yml",
      ".markdownlint.jsonc", ".markdownlint.json", ".markdownlint.yaml",
      ".markdownlint.yml", "package.json">>
ConfigDefault == [n \in RuleNames |-> None]
ConfigFile(config) == [kind |-> "config", config |-> config]
InvalidFile == [kind |-> "invalid"]
ConfigErr == [kind |-> "Err", error |-> "Config"]

\* config_path.exists()
exists(dir, name) == name \in DOMAIN dir /\ IsSome(dir[name])
\* ConfigLoader::load_from_file(&config_path)
load_from_file(dir, name) ==
    IF Unwrap(dir[name]).kind = "invalid" THEN ConfigErr
    ELSE [kind |-> "Ok", config |-> Unwrap(dir[name]).config]
\* "for config_file in CONFIG_FILES { if config_path.exists() { .. break } }":
\* the index of the name that is taken, 0 if none exists
first_existing(dir) ==
    IF \E i \in 1..Len(CONFIG_FILES) : exists(dir, CONFIG_FILES[i])
    THEN CHOOSE i \in 1..Len(CONFIG_FILES) :
             /\ exists(dir, CONFIG_FILES[i])
             /\ \A j \in 1..(i - 1) : ~exists(dir, CONFIG_FILES[j])
    ELSE 0
\* The loop of find_all_configs at the directory with index k; current.pop()
\* fails at the root, the last directory.
RECURSIVE find_loop(_, _, _)
find_loop(ds, k, configs) ==
    LET i == first_existing(ds[k])
        loadedFile == load_from_file(ds[k], CONFIG_FILES[i])
        pushed == IF i = 0 THEN configs
                  ELSE Append(configs, [path |-> <<k, CONFIG_FILES[i]>>,
                                        config |-> loadedFile.config])
    IN IF i # 0 /\ loadedFile.kind = "Err" THEN ConfigErr
       ELSE IF k >= Len(ds) THEN [kind |-> "Ok", configs |-> pushed]
       ELSE find_loop(ds, k + 1, pushed)
reverse(s) == [i \in 1..Len(s) |-> s[Len(s) + 1 - i]]

\* A variant that returns the configs in the order they were found.
find_all_configs_start_first(ds) == find_loop(ds, 1, <<>>)

\* ConfigLoader::find_all_configs(start_dir)
find_all_configs(ds) ==
    LET r == find_loop(ds, 1, <<>>)
    IN IF r.kind = "Err" THEN r ELSE [kind |-> "Ok", configs |-> reverse(r.configs)]

\* merge_configs(base, override_cfg), on the field config
merge_configs(base, override_cfg) ==
    [n \in RuleNames |-> IF IsSome(override_cfg[n]) THEN override_cfg[n] ELSE base[n]]
RECURSIVE fold_merge(_, _)
fold_merge(acc, configs) ==
    IF configs = <<>> THEN acc
    ELSE fold_merge(merge_configs(acc, Head(configs)), Tail(configs))
\* merge_many_configs(configs)
merge_many_configs(configs) == fold_merge(ConfigDefault, configs)

(***************************************************************************)
(* SpecConfig: run() discovers and merges the configuration, for any chain *)
(* of at most MaxDepth directories.                                        *)
(***************************************************************************)
JsoncConfigs ==
    {[n \in RuleNames |-> IF n = "MD001" THEN a ELSE b] :
        a \in {None, Some(Enabled(TRUE)), Some(Enabled(FALSE))},
        b \in {None, Some(Enabled(TRUE))}}
PackageConfigs == {ConfigDefault, [n \in RuleNames |-> IF n = "MD009" THEN Some(Enabled(FALSE)) ELSE None]}
Directories ==
    {[n \in {".markdownlint.jsonc", "package.json"} |->
         IF n = "package.json" THEN p ELSE j] :
        j \in {None, Some(InvalidFile)} \cup {Some(ConfigFile(c)) : c \in JsoncConfigs},
        p \in {None} \cup {Some(ConfigFile(c)) : c \in PackageConfigs}}
DirChains == UNION {[1..n -> Directories] : n \in 1..MaxDepth}

InitConfig ==
    /\ FixIdle /\ LintIdle /\ CliIdle
    /\ query = NoQuery
    /\ lint_result = LintResultNew /\ added = <<>>
    /\ registry = RuleRegistryNew /\ registered = <<>>
    /\ checked = NoCheck /\ loaded = NotLoaded
    /\ dirs \in DirChains

\* run(): "let configs = ConfigLoader::find_all_configs(&cwd)?;" and the merge
LoadConfig ==
    /\ loaded = NotLoaded
    /\ LET found == find_all_configs(dirs)
       IN loaded' =
              [op |-> "find_all_configs", found |-> found,
               config |-> IF found.kind = "Err" THEN found
                          ELSE IF found.configs = <<>> THEN ConfigDefault
                          ELSE merge_many_configs(
                                   [i \in 1..Len(found.configs) |-> found.configs[i].config])]
    /\ UNCHANGED <<fixVars, lintVars, libVars, cliVars, checked, dirs>>

NextConfig == LoadConfig
SpecConfig == InitConfig /\ [][NextConfig]_vars

\* The directories that hold a configuration file, the name taken in each
\* (the first of CONFIG_FILES that exists there) and what it says.
ConfigsFound == loaded.op = "find_all_configs" /\ loaded.found.kind = "Ok"
ExistingIn(k) == {i \in 1..Len(CONFIG_FILES) : exists(dirs[k], CONFIG_FILES[i])}
Holding == {k \in 1..Len(dirs) : ExistingIn(k) # {}}
TakenIn(k) == CONFIG_FILES[CHOOSE i \in ExistingIn(k) : \A j \in ExistingIn(k) : i <= j]
SaysIn(k) == Unwrap(dirs[k][TakenIn(k)]).config
Mentioning(n) == {k \in Holding : IsSome(SaysIn(k)[n])}
Nearest(ks) == CHOOSE k \in ks : \A m \in ks : k <= m

\* C30 (Nearest config wins): find_all_configs takes at most one file per
\* directory, the first existing name in CONFIG_FILES order, and returns them
\* root-most first; the merge gives each rule id the RuleConfig of the
\* configuration nearest to the start directory that mentions it, and a rule
\* id mentioned only by farther configurations keeps its value.
C30_NearestConfigWins ==
    ConfigsFound =>
        LET found == loaded.found.configs
        IN /\ Len(found) = Cardinality(Holding)
           /\ \A i \in 1..Len(found) :
                  /\ found[i].path[1] \in Holding
                  /\ found[i].path[2] = TakenIn(found[i].path[1])
                  /\ found[i].config = SaysIn(found[i].path[1])
           /\ \A i, j \in 1..Len(found) : i < j => found[i].path[1] > found[j].path[1]
           /\ \A n \in RuleNames :
                  loaded.config[n] =
                      IF Mentioning(n) = {} THEN None
                      ELSE SaysIn(Nearest(Mentioning(n)))[n]

\* Two directories hold configurations that disagree on MD001, the nearer
\* directory holds two of the names of CONFIG_FILES, and MD009 is mentioned by
\* the farther configuration only.
C30_Witness ==
    /\ ConfigsFound
    /\ Len(dirs) = 2
    /\ Cardinality(ExistingIn(1)) = 2
    /\ Mentioning("MD001") = {1, 2}
    /\ SaysIn(1)["MD001"] # SaysIn(2)["MD001"]
    /\ Mentioning("MD009") = {2}
    /\ loaded.config["MD001"] = SaysIn(1)["MD001"]
    /\ loaded.config["MD009"] = SaysIn(2)["MD009"]

====
